---- MODULE Spec2Model ----
(***************************************************************************)
(* A model of connectrpc.com/grpchealth: the StaticChecker registry, its   *)
(* per-subscription watchNotifier and the goroutines that run around them. *)
(* Every mutex-protected section and every atomic load/store/CAS is one    *)
(* step; a callback invocation is two steps (it begins, it returns).       *)
(***************************************************************************)
EXTENDS Integers, Sequences, FiniteSets, TLC

\* ------------------------------------------------------------ bounds
\* number of SetStatus calls issued in one behaviour
MaxSets == 3
\* number of times the stop function of one watch is called
MaxStops == 1
\* goroutine slots available per notifier for deliverNotices
MaxLoops == 2
\* number of Check calls issued in one behaviour
MaxChecks == 2
\* number of SetStatus calls issued in a behaviour with two subscriptions
PairSets == 1
\* number of times the stop function is called there
PairStops == 2

\* SetStatus calls beside the Watch RPC of HandlerSpec
HandlerSets == 2

\* messages the stream of a client.Watch call yields
MaxMsgs == 2
\* number of times the client's stop function is called
MaxClientStops == 2

\* ------------------------------------------------------------ constants
StatusUnknown == 0
StatusServing == 1
StatusNotServing == 2

Statuses == {StatusUnknown, StatusServing, StatusNotServing}

\* The service names: "" is the whole process, "A" is a named service.
Names == {"", "A"}
\* The argument lists of NewStaticChecker: without "A" the name is unknown
\* until SetStatus registers it.
InitialServices == {{}, {"A"}}

\* The Watch calls of one behaviour, each with its own context, callback,
\* AfterFunc goroutine and stop function.
WatchSlots == {"w1", "w2"}

NoErr == "nil"
CodeNotFound == "NotFound"
\* ctx.Err() of a context that is done: the contexts here are cancelled
CtxErrs == {"Canceled"}

\* an absent key of the statuses map; a present key maps to <<status>>
NoEntry == <<>>

LoopSlots == 1..MaxLoops

\* the goroutines that call the stop function of a client.Watch call
StopCallers == {"s1", "s2"}

VARIABLES
    statuses,    \* StaticChecker.statuses: name -> <<status>> or NoEntry
    watchers,    \* StaticChecker.watchers: name -> set of <<watcherID, slot>>
    watchCount,  \* StaticChecker.watchCount
    mu,          \* holder of StaticChecker.mu: "free", a watch slot, "setter"
    notifier,    \* slot -> watchNotifier fields (status, err, delivering, stopped)
    loops,       \* slot -> loop slot -> state of one deliverNotices execution
    wpc,         \* slot -> position of the Watch call
    wsvc,        \* slot -> req.Service of the Watch call
    wid,         \* slot -> watcherID the Watch call took
    nfpc,        \* slot -> position of the goroutine delivering NotFound
    ctxErr,      \* slot -> ctx.Err() of the watch's context
    afpc,        \* slot -> position of the context.AfterFunc goroutine
    spc,         \* slot -> position of the running stop call
    stopCalls,   \* slot -> number of stop calls that returned
    tpc,         \* position of the SetStatus call
    tstatus,     \* status argument of the running SetStatus
    pending,     \* notifiers the running SetStatus has still to notify
    setCount,    \* SetStatus calls issued so far
    delivered,   \* slot -> the (resp, err) pairs the callback was invoked with
    trueSeq,     \* slot -> status at Watch time, then the statuses set afterwards
    ctxFirst,    \* slot -> the context ended before stop was first invoked
    removals,    \* slot -> times the subscription was taken out of the set
    wentry,      \* slot -> the entry of the name in statuses when Watch read it
    cpc,         \* position of the Check call
    csvc,        \* req.Service of the Check call
    cres,        \* what the last Check returned: (resp, err), <<>> before
    centry,      \* the entry of the name in statuses when Check read it
    callowed,    \* outcomes the registry had for csvc during the Check call
    checkCount,  \* Check calls issued so far
    hkind,       \* the Checker NewHandler was given: "static", "plain"; "none" before
    hpc,         \* position of the handler of the Watch RPC
    hseen,       \* callback invocations whose body the handler's closure has run
    sent,        \* the statuses stream.Send has put on the response stream
    rpcErr,      \* rpcErr of the handler of the Watch RPC
    done,        \* times close(done) was reached in the handler's callback
    hres,        \* the error the handler of the Watch RPC returned
    hcb,         \* position of the handler's callback: "idle", or "close" before close(done)
    hfirst,      \* the first error the handler's callback saw
    kpc,         \* position of the client.Watch call
    lpc,         \* position of the receive loop goroutine of client.Watch
    msg,         \* <<status>> the receive loop holds for the feed, or <<>>
    received,    \* the statuses stream.Receive has yielded, in order
    fed,         \* the statuses the receive loop has sent on results, in order
    results,     \* the buffered statuses of the results channel
    resultsClosed, \* close(results) was run
    stopped,     \* the atomic flag stopped of client.Watch
    recvError,   \* the atomic value recvError of client.Watch
    workerDone,  \* close(workerDone) was run
    kctx,        \* ctx.Err() of the context client.Watch derived
    kspc,        \* position of the running client stop call
    kstops,      \* client stop calls that returned
    kres,        \* the error the last client stop call returned
    openErr,     \* the error CallServerStream returned to client.Watch
    streamClosed, \* stream.Close() was run
    pctx,        \* Err() of the context the caller gave to client.Watch
    pctxFirst,   \* that context ended before any stop call began
    rerr,        \* err := stream.Err() of the receive loop
    rclose,      \* closeErr := stream.Close() of the receive loop
    kreturned,   \* the errors the client stop calls have returned
    closes,      \* times close(results) was run
    sarg,        \* the Status that String was called on
    sout         \* the string it returned, a sequence of characters

\* the state of the goroutine calling Check
checkVars == <<cpc, csvc, cres, centry, callowed, checkCount>>

\* the state of the handler of the Watch RPC that NewHandler builds
handlerVars == <<hkind, hpc, hseen, sent, rpcErr, done, hres, hcb, hfirst>>

\* the state of one client.Watch call
clientVars == <<kpc, lpc, msg, received, fed, results, resultsClosed, stopped,
                recvError, workerDone, kctx, kspc, kstops, kres, openErr,
                streamClosed, pctx, pctxFirst, rerr, rclose, kreturned, closes>>

\* the state of a call of Status.String
stringVars == <<sarg, sout>>

\* the state of the StaticChecker, its watches and the calls made on it
registryVars == <<statuses, watchers, watchCount, mu, notifier, loops, wpc, wsvc,
                  wid, nfpc, ctxErr, afpc, spc, stopCalls, tpc, tstatus, pending,
                  setCount, delivered, trueSeq, ctxFirst, removals, wentry>>

vars == <<statuses, watchers, watchCount, mu, notifier, loops, wpc, wsvc, wid,
          nfpc, ctxErr, afpc, spc, stopCalls, tpc, tstatus, pending,
          setCount, delivered, trueSeq, ctxFirst, removals, wentry, checkVars,
          handlerVars, clientVars, stringVars>>

\* ------------------------------------------------------------ helpers

\* a callback invocation: resp is <<status>>, or <<>> for a nil response
Update(status, err) == [resp |-> <<status>>, err |-> err]
ErrUpdate(err) == [resp |-> <<>>, err |-> err]

NoNotifier == [exists |-> FALSE, status |-> StatusUnknown, err |-> NoErr,
               delivering |-> FALSE, stopped |-> FALSE]

NoLoop == [pc |-> "none", first |-> TRUE, prevStatus |-> StatusUnknown,
           status |-> StatusUnknown, err |-> NoErr]

\* watchNotifier as newNotifier constructs it
NewNotifierFields(status) ==
    [exists |-> TRUE, status |-> status, err |-> NoErr,
     delivering |-> TRUE, stopped |-> FALSE]

\* notify as it would be if it took an unchanged status for no change even
\* when an error comes with it
NotifyIgnoredSameStatus(n, status, err) ==
    \/ n.err # NoErr
    \/ n.status = status
    \/ n.stopped

\* notify as it would be without its test of the stopped flag
NotifyIgnoredNoStopTest(n, status, err) ==
    \/ n.err # NoErr
    \/ (err = NoErr /\ n.status = status)

\* notify as it would be without its test for a recorded error
NotifyIgnoredNoErrTest(n, status, err) ==
    \/ (err = NoErr /\ n.status = status)
    \/ n.stopped

\* the early returns of notify
NotifyIgnored(n, status, err) ==
    \/ n.err # NoErr
    \/ (err = NoErr /\ n.status = status)
    \/ n.stopped

\* notify as it would be if it dropped what arrives during a delivery
NotifyFieldsDropBusy(n, status, err) ==
    IF NotifyIgnored(n, status, err) \/ n.delivering
    THEN n
    ELSE [n EXCEPT !.status = status, !.err = err, !.delivering = TRUE]

\* the fields of the notifier after notify(status, err)
NotifyFields(n, status, err) ==
    IF NotifyIgnored(n, status, err)
    THEN n
    ELSE [n EXCEPT !.status = status, !.err = err, !.delivering = TRUE]

\* notify as it would be without its test of the delivering flag
NotifySpawnsUnguarded(n, status, err) ==
    ~(n.err # NoErr \/ (err = NoErr /\ n.status = status) \/ n.stopped)

\* notify starts a deliverNotices goroutine
NotifySpawns(n, status, err) ==
    ~NotifyIgnored(n, status, err) /\ ~n.delivering

\* the loop slot a new goroutine takes
FreeSlot(w) == CHOOSE k \in LoopSlots :
    /\ loops[w][k].pc = "none"
    /\ \A j \in LoopSlots : loops[w][j].pc = "none" => k <= j

HasFreeSlot(w) == \E k \in LoopSlots : loops[w][k].pc = "none"

\* loops after notify(status, err) on the notifier of w
LoopsAfterNotify(w, status, err) ==
    IF NotifySpawns(notifier[w], status, err)
    THEN [loops EXCEPT ![w][FreeSlot(w)] = [NoLoop EXCEPT !.pc = "top"]]
    ELSE loops

NotifyEnabled(w, status, err) ==
    NotifySpawns(notifier[w], status, err) => HasFreeSlot(w)

\* c.statuses[service] with the comma-ok idiom
Registered(service) == statuses[service] # NoEntry

\* Watch as it would be with its test of the empty name inverted
WatchUnknownInverted(service) == ~Registered(service) /\ service = ""

\* Watch answers NotFound through the callback
WatchUnknown(service) == ~Registered(service) /\ service # ""

\* the registry's status of a name that is registered or empty, as Check
\* reports it: the map entry, or Serving for the unset empty name
EffectiveStatus(service) ==
    IF statuses[service] # NoEntry THEN statuses[service][1] ELSE StatusServing

\* Watch as it would be without its default for the unset empty name
WatchStatusZero(service) ==
    IF Registered(service) THEN statuses[service][1] ELSE StatusUnknown

\* the status Watch seeds the notifier with
WatchStatus(service) ==
    IF Registered(service) THEN statuses[service][1] ELSE StatusServing

\* delete(c.watchers[service], watcherID)
DeleteFrom(set, id) == {p \in set : p[1] # id}

\* deleteWatcher as it would be if it deleted the whole map of the service
DeleteWatcherClearing(service, watcherID) == [watchers EXCEPT ![service] = {}]

\* deleteWatcher as it would be if it also deleted the older entries
DeleteWatcherUpTo(service, watcherID) == [watchers EXCEPT ![service] = {p \in @ : p[1] > watcherID}]

\* the watchers map after deleteWatcher(service, watcherID)
deleteWatcher(service, watcherID) == [watchers EXCEPT ![service] = DeleteFrom(@, watcherID)]

\* SetStatus as it would be if it ranged over the watchers of every service
NotifiersOfAll(service) == UNION {{p[2] : p \in watchers[s]} : s \in Names}

\* SetStatus as it would be if it found no watcher to range over
NotifiersOfNone(service) == {}

\* the notifiers registered under a name
NotifiersOf(service) == {p[2] : p \in watchers[service]}

\* ------------------------------------------------------------ initial state

\* NewStaticChecker(services...): every supplied service is Serving, no
\* watcher is registered; no Watch, SetStatus or stop call has begun.
Init ==
    /\ \E services \in InitialServices :
           statuses = [s \in Names |->
                          IF s \in services THEN <<StatusServing>> ELSE NoEntry]
    /\ watchers = [s \in Names |-> {}]
    /\ watchCount = 0
    /\ mu = "free"
    /\ notifier = [w \in WatchSlots |-> NoNotifier]
    /\ loops = [w \in WatchSlots |-> [k \in LoopSlots |-> NoLoop]]
    /\ wpc = [w \in WatchSlots |-> "idle"]
    /\ wsvc = [w \in WatchSlots |-> ""]
    /\ wid = [w \in WatchSlots |-> 0]
    /\ nfpc = [w \in WatchSlots |-> "none"]
    /\ ctxErr = [w \in WatchSlots |-> NoErr]
    /\ afpc = [w \in WatchSlots |-> "none"]
    /\ spc = [w \in WatchSlots |-> "idle"]
    /\ stopCalls = [w \in WatchSlots |-> 0]
    /\ tpc = "idle"
    /\ tstatus = StatusUnknown
    /\ pending = {}
    /\ setCount = 0
    /\ delivered = [w \in WatchSlots |-> <<>>]
    /\ trueSeq = [w \in WatchSlots |-> <<>>]
    /\ ctxFirst = [w \in WatchSlots |-> FALSE]
    /\ removals = [w \in WatchSlots |-> 0]
    /\ wentry = [w \in WatchSlots |-> NoEntry]
    /\ cpc = "idle"
    /\ csvc = ""
    /\ cres = <<>>
    /\ centry = NoEntry
    /\ callowed = {}
    /\ checkCount = 0
    /\ hkind = "none"
    /\ hpc = "idle"
    /\ hseen = 0
    /\ sent = <<>>
    /\ rpcErr = NoErr
    /\ done = 0
    /\ hres = NoErr
    /\ hcb = "idle"
    /\ hfirst = NoErr
    /\ kpc = "idle"
    /\ lpc = "none"
    /\ msg = <<>>
    /\ received = <<>>
    /\ fed = <<>>
    /\ results = <<>>
    /\ resultsClosed = FALSE
    /\ stopped = FALSE
    /\ recvError = NoErr
    /\ workerDone = FALSE
    /\ kctx = NoErr
    /\ kspc = [c \in StopCallers |-> "idle"]
    /\ kstops = 0
    /\ kres = NoErr
    /\ openErr = NoErr
    /\ streamClosed = FALSE
    /\ pctx = NoErr
    /\ pctxFirst = FALSE
    /\ rerr = NoErr
    /\ rclose = NoErr
    /\ kreturned = {}
    /\ closes = 0
    /\ sarg = 0
    /\ sout = <<>>

\* The Watch calls are issued in the order of their slots.
MayStart(w) == (w = "w2") => wpc["w1"] # "idle"

\* ------------------------------------------------------------ Watch

\* Watch on an unregistered non-empty name, a critical section of c.mu:
\* starts the goroutine that will call onUpdate(nil, NotFound) and returns a
\* no-op stop.
WatchNotFound(w, service) ==
    /\ wpc[w] = "idle" /\ MayStart(w)
    /\ mu = "free"
    /\ WatchUnknown(service)
    /\ wsvc' = [wsvc EXCEPT ![w] = service]
    /\ wentry' = [wentry EXCEPT ![w] = statuses[service]]
    /\ nfpc' = [nfpc EXCEPT ![w] = "spawned"]
    /\ wpc' = [wpc EXCEPT ![w] = "done"]
    /\ UNCHANGED <<checkVars, handlerVars, clientVars, stringVars>>
    /\ UNCHANGED <<statuses, watchers, watchCount, mu, notifier, loops, wid,
                   ctxErr, afpc, spc, stopCalls, tpc, tstatus, pending,
                   setCount, delivered, trueSeq, ctxFirst, removals>>

\* Watch on a known name or on "": takes c.mu, reads the status and enters
\* newNotifier, which runs deliverNotices in the calling goroutine.
WatchNewNotifier(w, service) ==
    /\ wpc[w] = "idle" /\ MayStart(w)
    /\ mu = "free"
    /\ ~WatchUnknown(service)
    /\ mu' = w
    /\ wsvc' = [wsvc EXCEPT ![w] = service]
    /\ wentry' = [wentry EXCEPT ![w] = statuses[service]]
    /\ notifier' = [notifier EXCEPT ![w] = NewNotifierFields(WatchStatus(service))]
    /\ loops' = [loops EXCEPT ![w][1] = [NoLoop EXCEPT !.pc = "top"]]
    /\ trueSeq' = [trueSeq EXCEPT ![w] = <<EffectiveStatus(service)>>]
    /\ wpc' = [wpc EXCEPT ![w] = "deliver"]
    /\ UNCHANGED <<checkVars, handlerVars, clientVars, stringVars>>
    /\ UNCHANGED <<statuses, watchers, watchCount, wid, nfpc, ctxErr, afpc, spc,
                   stopCalls, tpc, tstatus, pending, setCount, delivered,
                   ctxFirst, removals>>

\* Watch after newNotifier returned: takes a watcherID, stores the notifier in
\* the subscriber set, registers the AfterFunc of the context and returns the
\* stop closure; the deferred c.mu.Unlock runs.
WatchRegister(w) ==
    /\ wpc[w] = "deliver"
    /\ mu = w
    /\ \A k \in LoopSlots : loops[w][k].pc = "none"
    /\ wid' = [wid EXCEPT ![w] = watchCount]
    /\ watchCount' = watchCount + 1
    /\ watchers' = [watchers EXCEPT ![wsvc[w]] =
                        DeleteFrom(@, watchCount) \cup {<<watchCount, w>>}]
    /\ afpc' = [afpc EXCEPT ![w] = "armed"]
    /\ mu' = "free"
    /\ wpc' = [wpc EXCEPT ![w] = "done"]
    /\ UNCHANGED <<checkVars, handlerVars, clientVars, stringVars>>
    /\ UNCHANGED <<statuses, notifier, loops, wsvc, nfpc, ctxErr, spc, stopCalls,
                   tpc, tstatus, pending, setCount, delivered, trueSeq,
                   ctxFirst, removals, wentry>>

\* The goroutine of the NotFound path invokes the callback.
NotFoundCall(w) ==
    /\ nfpc[w] = "spawned"
    /\ delivered' = [delivered EXCEPT ![w] = Append(@, ErrUpdate(CodeNotFound))]
    /\ nfpc' = [nfpc EXCEPT ![w] = "callback"]
    /\ UNCHANGED <<checkVars, handlerVars, clientVars, stringVars>>
    /\ UNCHANGED <<statuses, watchers, watchCount, mu, notifier, loops, wpc, wsvc,
                   wid, ctxErr, afpc, spc, stopCalls, tpc, tstatus, pending,
                   setCount, trueSeq, ctxFirst, removals, wentry>>

\* The callback of the NotFound path returns.
NotFoundReturn(w) ==
    /\ nfpc[w] = "callback"
    /\ nfpc' = [nfpc EXCEPT ![w] = "done"]
    /\ UNCHANGED <<checkVars, handlerVars, clientVars, stringVars>>
    /\ UNCHANGED <<statuses, watchers, watchCount, mu, notifier, loops, wpc, wsvc,
                   wid, ctxErr, afpc, spc, stopCalls, tpc, tstatus, pending,
                   setCount, delivered, trueSeq, ctxFirst, removals, wentry>>

\* ------------------------------------------------------------ deliverNotices

\* the loop as it would be if it compared nothing after its first delivery
NoChangeAfterFirst(l, n) == ~l.first /\ n.err = NoErr

\* the loop has nothing new to deliver
NoChange(l, n) == ~l.first /\ n.status = l.prevStatus /\ n.err = NoErr

\* Top of the loop, under w.mu: snapshot (status, err); with no change to
\* deliver clear delivering and return.
DeliverSnapshot(w, k) ==
    /\ loops[w][k].pc = "top"
    /\ IF NoChange(loops[w][k], notifier[w])
       THEN /\ notifier' = [notifier EXCEPT ![w].delivering = FALSE]
            /\ loops' = [loops EXCEPT ![w][k] = NoLoop]
       ELSE /\ loops' = [loops EXCEPT ![w][k].pc = "check",
                                      ![w][k].status = notifier[w].status,
                                      ![w][k].err = notifier[w].err]
            /\ UNCHANGED notifier
    /\ UNCHANGED <<checkVars, handlerVars, clientVars, stringVars>>
    /\ UNCHANGED <<statuses, watchers, watchCount, mu, wpc, wsvc, wid, nfpc,
                   ctxErr, afpc, spc, stopCalls, tpc, tstatus, pending,
                   setCount, delivered, trueSeq, ctxFirst, removals, wentry>>

\* the loop goes on to call notifyFn after its test of the stopped flag
PassesStopped(l, n) == ~n.stopped

\* The test of the stopped flag: CompareAndSwap(false, true) for an error,
\* Load for a status. A stopped notifier ends the loop without a call.
DeliverCheck(w, k) ==
    /\ loops[w][k].pc = "check"
    /\ IF PassesStopped(loops[w][k], notifier[w])
       THEN /\ loops' = [loops EXCEPT ![w][k].pc = "call"]
            /\ notifier' = [notifier EXCEPT ![w].stopped =
                               IF loops[w][k].err # NoErr THEN TRUE ELSE @]
       ELSE /\ loops' = [loops EXCEPT ![w][k] = NoLoop]
            /\ UNCHANGED notifier
    /\ UNCHANGED <<checkVars, handlerVars, clientVars, stringVars>>
    /\ UNCHANGED <<statuses, watchers, watchCount, mu, wpc, wsvc, wid, nfpc,
                   ctxErr, afpc, spc, stopCalls, tpc, tstatus, pending,
                   setCount, delivered, trueSeq, ctxFirst, removals, wentry>>

\* what the loop passes to notifyFn
LoopUpdate(l) ==
    IF l.err # NoErr THEN ErrUpdate(l.err) ELSE Update(l.status, NoErr)

\* w.notifyFn(...) is entered.
DeliverCall(w, k) ==
    /\ loops[w][k].pc = "call"
    /\ delivered' = [delivered EXCEPT ![w] = Append(@, LoopUpdate(loops[w][k]))]
    /\ loops' = [loops EXCEPT ![w][k].pc = "callback"]
    /\ UNCHANGED <<checkVars, handlerVars, clientVars, stringVars>>
    /\ UNCHANGED <<statuses, watchers, watchCount, mu, notifier, wpc, wsvc, wid,
                   nfpc, ctxErr, afpc, spc, stopCalls, tpc, tstatus, pending,
                   setCount, trueSeq, ctxFirst, removals, wentry>>

\* w.notifyFn(...) returns: after an error the loop returns, after a status
\* it records prevStatus and goes round again.
DeliverReturn(w, k) ==
    /\ loops[w][k].pc = "callback"
    /\ loops' = [loops EXCEPT ![w][k] =
                    IF @.err # NoErr
                    THEN NoLoop
                    ELSE [NoLoop EXCEPT !.pc = "top", !.first = FALSE,
                                        !.prevStatus = loops[w][k].status]]
    /\ UNCHANGED <<checkVars, handlerVars, clientVars, stringVars>>
    /\ UNCHANGED <<statuses, watchers, watchCount, mu, notifier, wpc, wsvc, wid,
                   nfpc, ctxErr, afpc, spc, stopCalls, tpc, tstatus, pending,
                   setCount, delivered, trueSeq, ctxFirst, removals, wentry>>

\* ------------------------------------------------------------ context

\* The context of a watch is cancelled or reaches its deadline. This may
\* happen before Watch is called with it.
CtxCancel(w, e) ==
    /\ ctxErr[w] = NoErr
    /\ ctxErr' = [ctxErr EXCEPT ![w] = e]
    /\ ctxFirst' = [ctxFirst EXCEPT ![w] = (stopCalls[w] = 0 /\ spc[w] = "idle")]
    /\ UNCHANGED <<checkVars, handlerVars, clientVars, stringVars>>
    /\ UNCHANGED <<statuses, watchers, watchCount, mu, notifier, loops, wpc, wsvc,
                   wid, nfpc, afpc, spc, stopCalls, tpc, tstatus, pending,
                   setCount, delivered, trueSeq, removals, wentry>>

\* The AfterFunc goroutine starts once the context is done:
\* notifier.notify(0, ctx.Err()).
AfterFuncNotify(w) ==
    /\ afpc[w] = "armed"
    /\ ctxErr[w] # NoErr
    /\ NotifyEnabled(w, StatusUnknown, ctxErr[w])
    /\ notifier' = [notifier EXCEPT ![w] = NotifyFields(@, StatusUnknown, ctxErr[w])]
    /\ loops' = LoopsAfterNotify(w, StatusUnknown, ctxErr[w])
    /\ afpc' = [afpc EXCEPT ![w] = "delete"]
    /\ UNCHANGED <<checkVars, handlerVars, clientVars, stringVars>>
    /\ UNCHANGED <<statuses, watchers, watchCount, mu, wpc, wsvc, wid, nfpc,
                   ctxErr, spc, stopCalls, tpc, tstatus, pending, setCount,
                   delivered, trueSeq, ctxFirst, removals, wentry>>

\* the slots whose entry deleteWatcher(service, id) takes out
RemovedBy(service, id) == {p[2] : p \in {q \in watchers[service] : q[1] = id}}

\* removals after deleteWatcher(service, id)
CountRemovals(service, id) ==
    [v \in WatchSlots |->
        IF v \in RemovedBy(service, id) THEN removals[v] + 1 ELSE removals[v]]

\* The AfterFunc goroutine goes on: c.deleteWatcher(service, watcherID),
\* a critical section of c.mu.
AfterFuncDelete(w) ==
    /\ afpc[w] = "delete"
    /\ mu = "free"
    /\ watchers' = deleteWatcher(wsvc[w], wid[w])
    /\ removals' = CountRemovals(wsvc[w], wid[w])
    /\ afpc' = [afpc EXCEPT ![w] = "done"]
    /\ UNCHANGED <<checkVars, handlerVars, clientVars, stringVars>>
    /\ UNCHANGED <<statuses, watchCount, mu, notifier, loops, wpc, wsvc, wid,
                   nfpc, ctxErr, spc, stopCalls, tpc, tstatus, pending,
                   setCount, delivered, trueSeq, ctxFirst, wentry>>

\* ------------------------------------------------------------ stop

\* Watch returned the stop closure of a registered watch
HasNotifier(w) == notifier[w].exists

\* stop of a registered watch begins: notifier.stop() stores stopped. The
\* closure may be called again after it returned, limit times in all.
StopStoreWithin(w, limit) ==
    /\ wpc[w] = "done" /\ HasNotifier(w)
    /\ spc[w] = "idle" /\ stopCalls[w] < limit
    /\ notifier' = [notifier EXCEPT ![w].stopped = TRUE]
    /\ spc' = [spc EXCEPT ![w] = "delete"]
    /\ UNCHANGED <<checkVars, handlerVars, clientVars, stringVars>>
    /\ UNCHANGED <<statuses, watchers, watchCount, mu, loops, wpc, wsvc, wid,
                   nfpc, ctxErr, afpc, stopCalls, tpc, tstatus, pending,
                   setCount, delivered, trueSeq, ctxFirst, removals, wentry>>

StopStore(w) == StopStoreWithin(w, MaxStops)

\* stop goes on with c.deleteWatcher(service, watcherID) and returns.
StopDelete(w) ==
    /\ spc[w] = "delete"
    /\ mu = "free"
    /\ watchers' = deleteWatcher(wsvc[w], wid[w])
    /\ removals' = CountRemovals(wsvc[w], wid[w])
    /\ spc' = [spc EXCEPT ![w] = "idle"]
    /\ stopCalls' = [stopCalls EXCEPT ![w] = @ + 1]
    /\ UNCHANGED <<checkVars, handlerVars, clientVars, stringVars>>
    /\ UNCHANGED <<statuses, watchCount, mu, notifier, loops, wpc, wsvc, wid,
                   nfpc, ctxErr, afpc, tpc, tstatus, pending, setCount,
                   delivered, trueSeq, ctxFirst, wentry>>

\* stop of a watch on an unknown name: func() {} returns at once.
StopNoop(w) ==
    /\ wpc[w] = "done" /\ ~HasNotifier(w)
    /\ stopCalls[w] < MaxStops
    /\ stopCalls' = [stopCalls EXCEPT ![w] = @ + 1]
    /\ UNCHANGED <<checkVars, handlerVars, clientVars, stringVars>>
    /\ UNCHANGED <<statuses, watchers, watchCount, mu, notifier, loops, wpc, wsvc,
                   wid, nfpc, ctxErr, afpc, spc, tpc, tstatus, pending,
                   setCount, delivered, trueSeq, ctxFirst, removals, wentry>>

\* ------------------------------------------------------------ SetStatus

\* the watches whose true sequence a SetStatus on service extends
Following(service) == {w \in WatchSlots : HasNotifier(w) /\ wsvc[w] = service}

\* SetStatus as it would be if it updated known names only
StatusesAfterSetKnownOnly(service, status) ==
    IF Registered(service)
    THEN [statuses EXCEPT ![service] = <<status>>] ELSE statuses

\* c.statuses[service] = status
StatusesAfterSet(service, status) == [statuses EXCEPT ![service] = <<status>>]

\* SetStatus takes c.mu, stores the status and starts ranging over the
\* watchers of the service; with none to range over it unlocks and returns.
SetStatusLock(service, status) ==
    /\ tpc = "idle" /\ setCount < MaxSets
    /\ mu = "free"
    /\ statuses' = StatusesAfterSet(service, status)
    /\ setCount' = setCount + 1
    /\ callowed' = IF cpc = "called" /\ csvc = service
                   THEN callowed \cup {Update(status, NoErr)} ELSE callowed
    /\ trueSeq' = [w \in WatchSlots |->
                      IF w \in Following(service)
                      THEN Append(trueSeq[w], status) ELSE trueSeq[w]]
    /\ pending' = NotifiersOf(service)
    /\ IF NotifiersOf(service) = {}
       THEN UNCHANGED <<mu, tpc, tstatus>>
       ELSE /\ mu' = "setter"
            /\ tpc' = "notify"
            /\ tstatus' = status
    /\ UNCHANGED <<cpc, csvc, cres, centry, checkCount>>
    /\ UNCHANGED <<handlerVars, clientVars, stringVars>>
    /\ UNCHANGED <<watchers, watchCount, notifier, loops, wpc, wsvc, wid, nfpc,
                   ctxErr, afpc, spc, stopCalls, delivered, ctxFirst, removals,
                   wentry>>

\* One iteration of the range: watcher.notify(status, nil). Go ranges over a
\* map in no fixed order. After the last one the deferred c.mu.Unlock runs
\* and SetStatus returns.
SetStatusNotify(w) ==
    /\ tpc = "notify"
    /\ w \in pending
    /\ NotifyEnabled(w, tstatus, NoErr)
    /\ notifier' = [notifier EXCEPT ![w] = NotifyFields(@, tstatus, NoErr)]
    /\ loops' = LoopsAfterNotify(w, tstatus, NoErr)
    /\ pending' = pending \ {w}
    /\ IF pending = {w}
       THEN /\ mu' = "free"
            /\ tpc' = "idle"
            /\ tstatus' = StatusUnknown
       ELSE UNCHANGED <<mu, tpc, tstatus>>
    /\ UNCHANGED <<checkVars, handlerVars, clientVars, stringVars>>
    /\ UNCHANGED <<statuses, watchers, watchCount, wpc, wsvc, wid, nfpc, ctxErr,
                   afpc, spc, stopCalls, setCount, delivered, trueSeq, ctxFirst,
                   removals, wentry>>

\* ------------------------------------------------------------ Check

\* Check as it would be without its default for the unset empty name
CheckResultNoDefault(service) ==
    IF Registered(service) THEN Update(statuses[service][1], NoErr)
    ELSE ErrUpdate(CodeNotFound)

\* Check as it would be if the process were always Serving
CheckResultAlwaysServing(service) ==
    IF service = "" THEN Update(StatusServing, NoErr)
    ELSE IF Registered(service) THEN Update(statuses[service][1], NoErr)
    ELSE ErrUpdate(CodeNotFound)

\* what Check returns for a name, read under c.mu.RLock
CheckResult(service) ==
    IF Registered(service) THEN Update(statuses[service][1], NoErr)
    ELSE IF service = "" THEN Update(StatusServing, NoErr)
    ELSE ErrUpdate(CodeNotFound)

\* A goroutine calls Check(ctx, &CheckRequest{Service: service}).
CheckCall(service) ==
    /\ cpc \in {"idle", "done"} /\ checkCount < MaxChecks
    /\ cpc' = "called"
    /\ csvc' = service
    /\ cres' = <<>>
    /\ centry' = NoEntry
    /\ callowed' = {CheckResult(service)}
    /\ checkCount' = checkCount + 1
    /\ UNCHANGED <<handlerVars, clientVars, stringVars>>
    /\ UNCHANGED <<statuses, watchers, watchCount, mu, notifier, loops, wpc, wsvc,
                   wid, nfpc, ctxErr, afpc, spc, stopCalls, tpc, tstatus, pending,
                   setCount, delivered, trueSeq, ctxFirst, removals, wentry>>

\* Check gets the read side of c.mu, which no writer (SetStatus, Watch,
\* deleteWatcher) may hold, looks the name up and returns.
CheckRead ==
    /\ cpc = "called"
    /\ mu = "free"
    /\ cres' = CheckResult(csvc)
    /\ centry' = statuses[csvc]
    /\ cpc' = "done"
    /\ UNCHANGED <<csvc, callowed, checkCount>>
    /\ UNCHANGED <<handlerVars, clientVars, stringVars>>
    /\ UNCHANGED <<statuses, watchers, watchCount, mu, notifier, loops, wpc, wsvc,
                   wid, nfpc, ctxErr, afpc, spc, stopCalls, tpc, tstatus, pending,
                   setCount, delivered, trueSeq, ctxFirst, removals, wentry>>

\* ------------------------------------------------------------ NewHandler

CodeUnimplemented == "Unimplemented"
\* the error of a stream.Send that fails
SendFailed == "SendFailed"

\* the Checker given to NewHandler: a StaticChecker, or a Checker with no
\* Watch method
HandlerKinds == {"static", "plain"}

\* the watch slot the handler's call of watcher.Watch takes
HandlerSlot == "w1"

\* NewHandler as it would be if it never took the Watcher branch
ImplementsWatcherNever(kind) == FALSE

\* watcher, ok := checker.(Watcher): a StaticChecker has the Watch method
ImplementsWatcher(kind) == kind = "static"

\* A Watch RPC arrives at the handler built for a Watcher: the stream handler
\* makes done and rpcErr and goes on to call watcher.Watch.
HandlerWatch(kind) ==
    /\ hpc = "idle"
    /\ ImplementsWatcher(kind)
    /\ hkind' = kind
    /\ hpc' = "watch"
    /\ UNCHANGED <<hseen, sent, rpcErr, done, hres, hcb, hfirst>>
    /\ UNCHANGED <<registryVars, checkVars, clientVars, stringVars>>

\* A Watch RPC arrives at the handler built for a Checker that is no Watcher:
\* the stream handler returns CodeUnimplemented.
HandlerUnimplemented(kind) ==
    /\ hpc = "idle"
    /\ ~ImplementsWatcher(kind)
    /\ hkind' = kind
    /\ hpc' = "returned"
    /\ hres' = CodeUnimplemented
    /\ UNCHANGED <<hseen, sent, rpcErr, done, hcb, hfirst>>
    /\ UNCHANGED <<registryVars, checkVars, clientVars, stringVars>>

\* the callback invocation whose body is to run next
HandlerUpdate == delivered[HandlerSlot][hseen + 1]

\* err of the callback after its stream.Send, which succeeds or not
CallbackErr(u, ok) ==
    IF u.err # NoErr THEN u.err ELSE IF ok THEN NoErr ELSE SendFailed

\* The body of the callback the handler gave to Watch, up to close(done):
\* Send for a status, and on an error rpcErr = err. A Send on the stream of
\* a handler that returned fails.
HandlerCallback(ok) ==
    /\ hkind = "static"
    /\ hcb = "idle"
    /\ hseen < Len(delivered[HandlerSlot])
    /\ done < 2
    /\ ok => (HandlerUpdate.err = NoErr /\ hpc # "returned")
    /\ sent' = IF ok THEN Append(sent, HandlerUpdate.resp[1]) ELSE sent
    /\ rpcErr' = IF CallbackErr(HandlerUpdate, ok) # NoErr
                 THEN CallbackErr(HandlerUpdate, ok) ELSE rpcErr
    /\ hfirst' = IF hfirst = NoErr THEN CallbackErr(HandlerUpdate, ok) ELSE hfirst
    /\ hcb' = IF CallbackErr(HandlerUpdate, ok) # NoErr THEN "close" ELSE "idle"
    /\ hseen' = IF CallbackErr(HandlerUpdate, ok) # NoErr THEN hseen ELSE hseen + 1
    /\ UNCHANGED <<hkind, hpc, hres, done>>
    /\ UNCHANGED <<registryVars, checkVars, clientVars, stringVars>>

\* close(done) of the callback, after rpcErr = err. The close of a closed
\* channel panics, in a goroutine of the notifier, which ends the process.
HandlerClose ==
    /\ hcb = "close"
    /\ done' = done + 1
    /\ hseen' = hseen + 1
    /\ hcb' = "idle"
    /\ UNCHANGED <<hkind, hpc, sent, rpcErr, hres, hfirst>>
    /\ UNCHANGED <<registryVars, checkVars, clientVars, stringVars>>

\* the callback has run its body and may return
CallbackRan == hseen = Len(delivered[HandlerSlot])

\* <-done: Watch returned and done is closed; the return value is rpcErr, as
\* it is read now, and the deferred stop is to run.
HandlerDone ==
    /\ hpc = "watch"
    /\ wpc[HandlerSlot] = "done"
    /\ done = 1
    /\ hres' = rpcErr
    /\ hpc' = "stop"
    /\ UNCHANGED <<hkind, hseen, sent, rpcErr, done, hcb, hfirst>>
    /\ UNCHANGED <<registryVars, checkVars, clientVars, stringVars>>

\* The deferred stop returned and with it the stream handler.
HandlerReturn ==
    /\ hpc = "stop"
    /\ done = 1
    /\ spc[HandlerSlot] = "idle" /\ stopCalls[HandlerSlot] = 1
    /\ hpc' = "returned"
    /\ UNCHANGED <<hkind, hseen, sent, rpcErr, done, hres, hcb, hfirst>>
    /\ UNCHANGED <<registryVars, checkVars, clientVars, stringVars>>

\* ------------------------------------------------------------ client.Watch

\* make(chan Status, 1)
ResultsCap == 1

CtxCanceled == "Canceled"
\* ctx.Err() of the context given to client.Watch once it is done
ClientCtxErrs == {CtxCanceled, "DeadlineExceeded"}
\* an error code the server ends the stream with, or the call fails with
ServerErrs == {"Unavailable"}
\* what stream.Close() returns
CloseErrs == {NoErr, "CloseFailed"}

\* cancel() as it would be if it left the context as it is
AfterCancelNoop == kctx

\* cancel() of the context client.Watch derived
AfterCancel == IF kctx = NoErr THEN CtxCanceled ELSE kctx

\* stop calls that have begun
StopsBegun == kstops + Cardinality({c \in StopCallers : kspc[c] # "idle"})

\* The context given to client.Watch is cancelled or reaches its deadline;
\* the context derived from it is done with the same error unless cancel()
\* was called before.
ClientCtxEnd(e) ==
    /\ pctx = NoErr
    /\ pctx' = e
    /\ pctxFirst' = (StopsBegun = 0)
    /\ kctx' = IF kctx = NoErr THEN e ELSE kctx
    /\ UNCHANGED <<kpc, lpc, msg, received, fed, results, resultsClosed, stopped,
                   recvError, workerDone, kspc, kstops, kres, openErr,
                   streamClosed, rerr, rclose, kreturned, closes>>
    /\ UNCHANGED <<registryVars, checkVars, handlerVars, stringVars>>

\* client.Watch when CallServerStream fails: close(results), cancel(), and
\* the stop returned is func() error { return err }.
ClientWatchFails(e) ==
    /\ kpc = "idle"
    /\ openErr' = e
    /\ resultsClosed' = TRUE
    /\ closes' = closes + 1
    /\ kctx' = AfterCancel
    /\ kpc' = "failed"
    /\ UNCHANGED <<lpc, msg, received, fed, results, stopped, recvError,
                   workerDone, kspc, kstops, kres, streamClosed, pctx,
                   pctxFirst, rerr, rclose, kreturned>>
    /\ UNCHANGED <<registryVars, checkVars, handlerVars, stringVars>>

\* client.Watch when the stream opens: starts the receive loop goroutine and
\* returns results and stop.
ClientWatchOpens ==
    /\ kpc = "idle"
    /\ kpc' = "open"
    /\ lpc' = "receive"
    /\ UNCHANGED <<msg, received, fed, results, resultsClosed, stopped, recvError,
                   workerDone, kctx, kspc, kstops, kres, openErr,
                   streamClosed, pctx, pctxFirst, rerr, rclose, kreturned,
                   closes>>
    /\ UNCHANGED <<registryVars, checkVars, handlerVars, stringVars>>

\* the statuses the server sends on the stream: two, which the loop treats
\* alike, are enough to tell the order of what it passes on
ReceivedStatuses == {StatusServing, StatusNotServing}

\* stream.Receive() yields a message.
ReceiveMessage(status) ==
    /\ lpc = "receive"
    /\ Len(received) < MaxMsgs
    /\ msg' = <<status>>
    /\ received' = Append(received, status)
    /\ lpc' = "select"
    /\ UNCHANGED <<kpc, fed, results, resultsClosed, stopped, recvError,
                   workerDone, kctx, kspc, kstops, kres, openErr,
                   streamClosed, pctx, pctxFirst, rerr, rclose, kreturned,
                   closes>>
    /\ UNCHANGED <<registryVars, checkVars, handlerVars, stringVars>>

\* what the loop stores in recvError after a failed Receive; NoErr: no store
ReceiveStores(err, closeErr) ==
    IF err # NoErr /\ (err # CtxCanceled \/ ~stopped)
    THEN err
    ELSE closeErr

\* what stream.Err() may be after a failed Receive: nil at the end of the
\* stream, the server's error code, or the error of the ended context
ReceiveErrs == {NoErr} \cup ServerErrs \cup ({kctx} \ {NoErr})

\* stream.Receive() returns false: the loop closes the stream, stores the
\* error to report and returns.
ReceiveFails(err, closeErr) ==
    /\ lpc = "receive"
    /\ err \in ReceiveErrs
    /\ rerr' = err
    /\ rclose' = closeErr
    /\ streamClosed' = TRUE
    /\ recvError' = IF ReceiveStores(err, closeErr) # NoErr
                    THEN ReceiveStores(err, closeErr) ELSE recvError
    /\ lpc' = "cancel"
    /\ UNCHANGED <<kpc, msg, received, fed, results, resultsClosed, stopped,
                   workerDone, kctx, kspc, kstops, kres, openErr, pctx,
                   pctxFirst, kreturned, closes>>
    /\ UNCHANGED <<registryVars, checkVars, handlerVars, stringVars>>

\* select, case results <- Status(...): the buffer has room.
SelectSend ==
    /\ lpc = "select"
    /\ Len(results) < ResultsCap
    /\ results' = Append(results, msg[1])
    /\ fed' = Append(fed, msg[1])
    /\ msg' = <<>>
    /\ lpc' = "receive"
    /\ UNCHANGED <<kpc, received, resultsClosed, stopped, recvError,
                   workerDone, kctx, kspc, kstops, kres, openErr,
                   streamClosed, pctx, pctxFirst, rerr, rclose, kreturned,
                   closes>>
    /\ UNCHANGED <<registryVars, checkVars, handlerVars, stringVars>>

\* the select as it would be without its ctx.Done() case
CtxDoneNever == FALSE

\* the select as it would be with its ctx.Done() case ready at all times
CtxDoneAlways == TRUE

\* <-ctx.Done() can be received from
CtxDone == kctx # NoErr

\* select, case <-ctx.Done(): the loop stores ctx.Err() unless it is the
\* cancellation of a stop call, and returns.
SelectDone ==
    /\ lpc = "select"
    /\ CtxDone
    /\ recvError' = IF kctx # CtxCanceled \/ ~stopped THEN kctx ELSE recvError
    /\ msg' = <<>>
    /\ lpc' = "cancel"
    /\ UNCHANGED <<kpc, received, fed, results, resultsClosed, stopped,
                   workerDone, kctx, kspc, kstops, kres, openErr,
                   streamClosed, pctx, pctxFirst, rerr, rclose, kreturned,
                   closes>>
    /\ UNCHANGED <<registryVars, checkVars, handlerVars, stringVars>>

\* The deferred calls of the loop, last deferred first: cancel().
WorkerCancel ==
    /\ lpc = "cancel"
    /\ kctx' = AfterCancel
    /\ lpc' = "closeResults"
    /\ UNCHANGED <<kpc, msg, received, fed, results, resultsClosed, stopped,
                   recvError, workerDone, kspc, kstops, kres, openErr,
                   streamClosed, pctx, pctxFirst, rerr, rclose, kreturned,
                   closes>>
    /\ UNCHANGED <<registryVars, checkVars, handlerVars, stringVars>>

\* close(results)
WorkerCloseResults ==
    /\ lpc = "closeResults"
    /\ resultsClosed' = TRUE
    /\ closes' = closes + 1
    /\ lpc' = "closeDone"
    /\ UNCHANGED <<kpc, msg, received, fed, results, stopped, recvError,
                   workerDone, kctx, kspc, kstops, kres, openErr,
                   streamClosed, pctx, pctxFirst, rerr, rclose, kreturned>>
    /\ UNCHANGED <<registryVars, checkVars, handlerVars, stringVars>>

\* close(workerDone): the goroutine is over.
WorkerCloseDone ==
    /\ lpc = "closeDone"
    /\ workerDone' = TRUE
    /\ lpc' = "exited"
    /\ UNCHANGED <<kpc, msg, received, fed, results, resultsClosed, stopped,
                   recvError, kctx, kspc, kstops, kres, openErr,
                   streamClosed, pctx, pctxFirst, rerr, rclose, kreturned,
                   closes>>
    /\ UNCHANGED <<registryVars, checkVars, handlerVars, stringVars>>

\* A status is taken from the results channel.
Consume ==
    /\ Len(results) > 0
    /\ results' = Tail(results)
    /\ UNCHANGED <<kpc, lpc, msg, received, fed, resultsClosed, stopped,
                   recvError, workerDone, kctx, kspc, kstops, kres, openErr,
                   streamClosed, pctx, pctxFirst, rerr, rclose, kreturned,
                   closes>>
    /\ UNCHANGED <<registryVars, checkVars, handlerVars, stringVars>>

\* The stop function of a Watch whose stream did not open returns err.
ClientStopFailed ==
    /\ kpc = "failed"
    /\ kstops < MaxClientStops
    /\ kres' = openErr
    /\ kreturned' = kreturned \cup {openErr}
    /\ kstops' = kstops + 1
    /\ UNCHANGED <<kpc, lpc, msg, received, fed, results, resultsClosed, stopped,
                   recvError, workerDone, kctx, kspc, openErr, streamClosed,
                   pctx, pctxFirst, rerr, rclose, closes>>
    /\ UNCHANGED <<registryVars, checkVars, handlerVars, stringVars>>

\* stop begins: stopped.Store(true).
ClientStopStore(c) ==
    /\ kpc = "open"
    /\ kspc[c] = "idle" /\ StopsBegun < MaxClientStops
    /\ stopped' = TRUE
    /\ kspc' = [kspc EXCEPT ![c] = "cancel"]
    /\ UNCHANGED <<kpc, lpc, msg, received, fed, results, resultsClosed,
                   recvError, workerDone, kctx, kstops, kres, openErr,
                   streamClosed, pctx, pctxFirst, rerr, rclose, kreturned,
                   closes>>
    /\ UNCHANGED <<registryVars, checkVars, handlerVars, stringVars>>

\* stop goes on: cancel().
ClientStopCancel(c) ==
    /\ kspc[c] = "cancel"
    /\ kctx' = AfterCancel
    /\ kspc' = [kspc EXCEPT ![c] = "wait"]
    /\ UNCHANGED <<kpc, lpc, msg, received, fed, results, resultsClosed, stopped,
                   recvError, workerDone, kstops, kres, openErr,
                   streamClosed, pctx, pctxFirst, rerr, rclose, kreturned,
                   closes>>
    /\ UNCHANGED <<registryVars, checkVars, handlerVars, stringVars>>

\* stop as it would be without its receive from workerDone
StopMayReturnAtOnce == TRUE

\* stop as it would be if it waited for the context instead: <-ctx.Done()
StopMayReturnOnCancel == kctx # NoErr

\* <-workerDone: the channel is closed
StopMayReturn == workerDone

\* stop received from workerDone, loads recvError and returns it.
ClientStopReturn(c) ==
    /\ kspc[c] = "wait"
    /\ StopMayReturn
    /\ kres' = recvError
    /\ kreturned' = kreturned \cup {recvError}
    /\ kstops' = kstops + 1
    /\ kspc' = [kspc EXCEPT ![c] = "idle"]
    /\ UNCHANGED <<kpc, lpc, msg, received, fed, results, resultsClosed, stopped,
                   recvError, workerDone, kctx, openErr, streamClosed, pctx,
                   pctxFirst, rerr, rclose, closes>>
    /\ UNCHANGED <<registryVars, checkVars, handlerVars, stringVars>>

\* ------------------------------------------------------------ Status.String

\* type Status uint8
MaxStatus == 255
StatusValues == 0..MaxStatus

\* the characters of the decimal digits
DigitChars == <<"0", "1", "2", "3", "4", "5", "6", "7", "8", "9">>

\* fmt's %d of an unsigned value: its decimal digits, most significant first
RECURSIVE Decimal(_)
Decimal(n) ==
    IF n < 10 THEN <<DigitChars[n + 1]>>
    ELSE Append(Decimal(n \div 10), DigitChars[(n % 10) + 1])

\* "status_", the format before its verb
StatusPrefix == <<"s", "t", "a", "t", "u", "s", "_">>

\* String as it would be without its case for StatusNotServing
StringNoNotServing(status) ==
    CASE status = StatusUnknown -> <<"u", "n", "k", "n", "o", "w", "n">>
      [] status = StatusServing -> <<"s", "e", "r", "v", "i", "n", "g">>
      [] OTHER -> StatusPrefix \o Decimal(status)

\* Status.String: the switch over the known statuses, then
\* fmt.Sprintf("status_%d", s)
String(status) ==
    CASE status = StatusUnknown -> <<"u", "n", "k", "n", "o", "w", "n">>
      [] status = StatusServing -> <<"s", "e", "r", "v", "i", "n", "g">>
      [] status = StatusNotServing -> <<"n", "o", "t", "_", "s", "e", "r", "v", "i", "n", "g">>
      [] OTHER -> StatusPrefix \o Decimal(status)

\* s.String() is called on a Status and returns.
StringCall(status) ==
    /\ sarg' = status
    /\ sout' = String(status)
    /\ UNCHANGED <<registryVars, checkVars, handlerVars, clientVars>>

\* ------------------------------------------------------------ specification

\* The Watch calls a behaviour of Spec makes: one subscription, with every
\* SetStatus, cancellation and stop racing against it.
SpecSlots == {"w1"}

NextOf(slots) ==
    \/ \E w \in slots, service \in Names : WatchNotFound(w, service)
    \/ \E w \in slots, service \in Names : WatchNewNotifier(w, service)
    \/ \E w \in slots : WatchRegister(w)
    \/ \E w \in slots : NotFoundCall(w)
    \/ \E w \in slots : NotFoundReturn(w)
    \/ \E w \in slots, k \in LoopSlots : DeliverSnapshot(w, k)
    \/ \E w \in slots, k \in LoopSlots : DeliverCheck(w, k)
    \/ \E w \in slots, k \in LoopSlots : DeliverCall(w, k)
    \/ \E w \in slots, k \in LoopSlots : DeliverReturn(w, k)
    \/ \E w \in slots, e \in CtxErrs : CtxCancel(w, e)
    \/ \E w \in slots : AfterFuncNotify(w)
    \/ \E w \in slots : AfterFuncDelete(w)
    \/ \E w \in slots : StopStore(w)
    \/ \E w \in slots : StopDelete(w)
    \/ \E w \in slots : StopNoop(w)
    \/ \E service \in Names, status \in Statuses : SetStatusLock(service, status)
    \/ \E w \in slots : SetStatusNotify(w)

Next == NextOf(SpecSlots)

Spec == Init /\ [][Next]_vars

\* The steps the program takes by itself once a call has begun: goroutines
\* that are runnable run, a callback that was entered returns, and a caller
\* waiting for c.mu gets it. Starting a Watch, SetStatus or stop call and
\* ending a context are up to the caller.
Progress(slots) ==
    \/ \E w \in slots : WatchRegister(w)
    \/ \E w \in slots : NotFoundCall(w)
    \/ \E w \in slots : NotFoundReturn(w)
    \/ \E w \in slots, k \in LoopSlots : DeliverSnapshot(w, k)
    \/ \E w \in slots, k \in LoopSlots : DeliverCheck(w, k)
    \/ \E w \in slots, k \in LoopSlots : DeliverCall(w, k)
    \/ \E w \in slots, k \in LoopSlots : DeliverReturn(w, k)
    \/ \E w \in slots : AfterFuncNotify(w)
    \/ \E w \in slots : AfterFuncDelete(w)
    \/ \E w \in slots : StopDelete(w)
    \/ \E w \in slots : SetStatusNotify(w)

\* Spec with the Go scheduler's guarantee that the program does not halt
\* while one of its goroutines can take a step.
FairSpec == Spec /\ WF_vars(Progress(SpecSlots))

\* The registry under readers and writers: Check and SetStatus calls racing
\* with one Watch call and the deliveries it causes.
RegistryNext ==
    \/ \E service \in Names : CheckCall(service)
    \/ CheckRead
    \/ \E service \in Names, status \in Statuses : SetStatusLock(service, status)
    \/ \E w \in SpecSlots : SetStatusNotify(w)
    \/ \E w \in SpecSlots, service \in Names : WatchNewNotifier(w, service)
    \/ \E w \in SpecSlots : WatchRegister(w)
    \/ \E w \in SpecSlots, k \in LoopSlots : DeliverSnapshot(w, k)
    \/ \E w \in SpecSlots, k \in LoopSlots : DeliverCheck(w, k)
    \/ \E w \in SpecSlots, k \in LoopSlots : DeliverCall(w, k)
    \/ \E w \in SpecSlots, k \in LoopSlots : DeliverReturn(w, k)

RegistrySpec == Init /\ [][RegistryNext]_vars

\* The steps of RegistryNext the program takes by itself when a callback may
\* block for ever: every step of a call that has begun and of a runnable
\* goroutine, except the return of a callback.
RegistryProgress ==
    \/ CheckRead
    \/ \E w \in SpecSlots : SetStatusNotify(w)
    \/ \E w \in SpecSlots : WatchRegister(w)
    \/ \E w \in SpecSlots, k \in LoopSlots : DeliverSnapshot(w, k)
    \/ \E w \in SpecSlots, k \in LoopSlots : DeliverCheck(w, k)
    \/ \E w \in SpecSlots, k \in LoopSlots : DeliverCall(w, k)

\* RegistrySpec with the scheduler's guarantee for everything but the
\* subscribers' callbacks, which may be slow or never return.
StallSpec == RegistrySpec /\ WF_vars(RegistryProgress)

\* Two subscriptions: "w1" is watched and served with deliveries, "w2" goes
\* through every way a watch can end (NotFound, cancellation, stop called
\* once or again) next to it, on the same name or on another one.
PairNext ==
    \/ \E service \in Names : WatchNotFound("w2", service)
    \/ \E w \in WatchSlots, service \in Names : WatchNewNotifier(w, service)
    \/ \E w \in WatchSlots : WatchRegister(w)
    \/ NotFoundCall("w2")
    \/ NotFoundReturn("w2")
    \/ \E w \in WatchSlots, k \in LoopSlots : DeliverSnapshot(w, k)
    \/ \E w \in WatchSlots, k \in LoopSlots : DeliverCheck(w, k)
    \/ \E w \in WatchSlots, k \in LoopSlots : DeliverCall(w, k)
    \/ \E w \in WatchSlots, k \in LoopSlots : DeliverReturn(w, k)
    \/ \E e \in CtxErrs : CtxCancel("w2", e)
    \/ AfterFuncNotify("w2")
    \/ AfterFuncDelete("w2")
    \/ StopStoreWithin("w2", PairStops)
    \/ StopDelete("w2")
    \/ StopNoop("w2")
    \/ \E service \in Names, status \in Statuses :
           setCount < PairSets /\ SetStatusLock(service, status)
    \/ \E w \in WatchSlots : SetStatusNotify(w)

PairSpec == Init /\ [][PairNext]_vars

\* One Watch RPC at the handler of NewHandler, for either kind of Checker,
\* with SetStatus calls and the end of the RPC's context beside it. The
\* callback of the watch is the handler's closure, stop its deferred call.
HandlerNext ==
    \/ \E kind \in HandlerKinds : HandlerWatch(kind) \/ HandlerUnimplemented(kind)
    \/ \E service \in Names :
           \/ hpc = "watch" /\ WatchNotFound(HandlerSlot, service)
           \/ hpc = "watch" /\ WatchNewNotifier(HandlerSlot, service)
    \/ WatchRegister(HandlerSlot)
    \/ NotFoundCall(HandlerSlot)
    \/ CallbackRan /\ NotFoundReturn(HandlerSlot)
    \/ \E k \in LoopSlots :
           \/ DeliverSnapshot(HandlerSlot, k)
           \/ DeliverCheck(HandlerSlot, k)
           \/ DeliverCall(HandlerSlot, k)
           \/ CallbackRan /\ DeliverReturn(HandlerSlot, k)
    \/ \E ok \in BOOLEAN : HandlerCallback(ok)
    \/ HandlerClose
    \/ \E e \in CtxErrs : CtxCancel(HandlerSlot, e)
    \/ AfterFuncNotify(HandlerSlot)
    \/ AfterFuncDelete(HandlerSlot)
    \/ HandlerDone
    \/ hpc = "stop" /\ StopStoreWithin(HandlerSlot, 1)
    \/ StopDelete(HandlerSlot)
    \/ hpc = "stop" /\ StopNoop(HandlerSlot)
    \/ HandlerReturn
    \/ \E service \in Names, status \in Statuses :
           setCount < HandlerSets /\ SetStatusLock(service, status)
    \/ SetStatusNotify(HandlerSlot)

HandlerSpec == Init /\ [][HandlerNext]_vars

\* One client.Watch call: its receive loop, the stream it reads, the reader
\* of the results channel, the caller's context and the calls of stop.
ClientNext ==
    \/ \E e \in ClientCtxErrs : ClientCtxEnd(e)
    \/ \E e \in ServerErrs : ClientWatchFails(e)
    \/ ClientWatchOpens
    \/ \E status \in ReceivedStatuses : ReceiveMessage(status)
    \/ \E err \in ReceiveErrs, closeErr \in CloseErrs : ReceiveFails(err, closeErr)
    \/ SelectSend
    \/ SelectDone
    \/ WorkerCancel
    \/ WorkerCloseResults
    \/ WorkerCloseDone
    \/ Consume
    \/ ClientStopFailed
    \/ \E c \in StopCallers : ClientStopStore(c)
    \/ \E c \in StopCallers : ClientStopCancel(c)
    \/ \E c \in StopCallers : ClientStopReturn(c)

ClientSpec == Init /\ [][ClientNext]_vars

\* The steps the goroutines of a client.Watch call take by themselves: the
\* receive loop's ctx.Done() case and deferred calls, the steps of a stop
\* call, and the return of a blocked stream.Receive() once the call's
\* context is done. The arrival of messages and the reader of the results
\* channel are not among them.
ClientProgress ==
    \/ /\ kctx # NoErr
       /\ \E err \in ReceiveErrs, closeErr \in CloseErrs : ReceiveFails(err, closeErr)
    \/ SelectDone
    \/ WorkerCancel
    \/ WorkerCloseResults
    \/ WorkerCloseDone
    \/ \E c \in StopCallers : ClientStopCancel(c) \/ ClientStopReturn(c)

ClientFairSpec == ClientSpec /\ WF_vars(ClientProgress)

\* Calls of String on every value of the Status type.
StringNext == \E status \in StatusValues : StringCall(status)

StringSpec == Init /\ [][StringNext]_vars

\* ------------------------------------------------------------ properties

RECURSIVE Collapse(_)
\* a sequence with its consecutive duplicates removed
Collapse(seq) ==
    IF Len(seq) <= 1 THEN seq
    ELSE IF seq[1] = seq[2] THEN Collapse(Tail(seq))
    ELSE <<seq[1]>> \o Collapse(Tail(seq))

RECURSIVE IsSubseq(_, _)
\* a is b with some elements left out
IsSubseq(a, b) ==
    IF a = <<>> THEN TRUE
    ELSE IF b = <<>> THEN FALSE
    ELSE IF a[1] = b[1] THEN IsSubseq(Tail(a), Tail(b))
    ELSE IsSubseq(a, Tail(b))

\* the deliveries of a watch that carried a status
StatusUpdates(w) == SelectSeq(delivered[w], LAMBDA u : u.err = NoErr)

\* the statuses the callback of a watch received, in order
DeliveredStatuses(w) ==
    [i \in 1..Len(StatusUpdates(w)) |-> StatusUpdates(w)[i].resp[1]]

\* callback invocations of a watch that are in progress
InCallback(w) ==
    Cardinality({k \in LoopSlots : loops[w][k].pc = "callback"})
        + (IF nfpc[w] = "callback" THEN 1 ELSE 0)

\* C1: the statuses delivered to a watcher, consecutive duplicates collapsed,
\* are a subsequence of the true sequence (the status at Watch time followed
\* by the statuses set afterwards); no status older than one already
\* received is delivered.
C1_DeliveredIsSubsequence ==
    \A w \in WatchSlots :
        HasNotifier(w) => IsSubseq(Collapse(DeliveredStatuses(w)), trueSeq[w])

\* C1 witness: three statuses were set while the callback was slow; the
\* watcher got the first and the last and is in its callback.
C1_Witness ==
    \E w \in WatchSlots :
        /\ Len(trueSeq[w]) = 4
        /\ trueSeq[w][2] # trueSeq[w][1]
        /\ trueSeq[w][3] # trueSeq[w][2]
        /\ trueSeq[w][4] # trueSeq[w][3]
        /\ trueSeq[w][4] # trueSeq[w][2]
        /\ DeliveredStatuses(w) = <<trueSeq[w][1], trueSeq[w][2], trueSeq[w][4]>>
        /\ InCallback(w) = 1

\* the last element of a non-empty sequence
Last(seq) == seq[Len(seq)]

\* a watch that was neither stopped nor cancelled
Healthy(w) == HasNotifier(w) /\ ~notifier[w].stopped /\ ctxErr[w] = NoErr

\* no delivery loop of the watch is running or about to run
LoopsIdle(w) ==
    /\ ~notifier[w].delivering
    /\ \A k \in LoopSlots : loops[w][k].pc = "none"

\* the watcher has received the registry's current status and is at rest
CaughtUp(w) ==
    /\ wpc[w] = "done"
    /\ tpc = "idle"
    /\ DeliveredStatuses(w) # <<>>
    /\ Last(DeliveredStatuses(w)) = EffectiveStatus(wsvc[w])
    /\ LoopsIdle(w)

\* C2: no lost final state. Once the SetStatus calls have ceased, a watch that
\* is neither stopped nor cancelled eventually stays in a state where the last
\* status delivered is the registry's status of its name and no delivery loop
\* is pending.
C2_FinalStatusDelivered ==
    \A w \in WatchSlots : <>[](Healthy(w) => CaughtUp(w))

\* C2 witness: NotServing, Unknown and Serving were set, the last two
\* while the delivery of NotServing was under way; the watcher skipped
\* Unknown and has caught up with Serving.
C2_Witness ==
    \E w \in WatchSlots :
        /\ Healthy(w) /\ CaughtUp(w)
        /\ trueSeq[w] = <<StatusServing, StatusNotServing, StatusUnknown, StatusServing>>
        /\ DeliveredStatuses(w) = <<StatusServing, StatusNotServing, StatusServing>>

\* C3: the first invocation of the callback of a watch on a registered or
\* empty name carries a nil error and the registry's status of the name as of
\* the creation of the subscription; it is made before Watch returns, while
\* the registry still holds that status.
C3_FirstDeliveryIsCurrentStatus ==
    \A w \in WatchSlots :
        HasNotifier(w) =>
            /\ delivered[w] # <<>> =>
                   delivered[w][1] = Update(trueSeq[w][1], NoErr)
            /\ wpc[w] = "deliver" => trueSeq[w][1] = EffectiveStatus(wsvc[w])
            /\ wpc[w] = "done" => delivered[w] # <<>>

\* C3 witness: a watch on the never-set empty name whose context was already
\* done is in its first callback, which got Serving.
C3_Witness ==
    \E w \in WatchSlots :
        /\ wpc[w] = "deliver"
        /\ wsvc[w] = "" /\ statuses[""] = NoEntry
        /\ ctxErr[w] # NoErr
        /\ InCallback(w) = 1
        /\ delivered[w] = <<Update(StatusServing, NoErr)>>

\* C4 (deliveries): an error delivery is the last delivery of a subscription,
\* so there is at most one and nothing follows it.
ErrorIsLast ==
    \A w \in WatchSlots :
        \A i \in 1..Len(delivered[w]) :
            delivered[w][i].err # NoErr => i = Len(delivered[w])

\* C4 (notifier): once an error is recorded, no step changes the recorded
\* status and error.
ErrorIsFinal ==
    \A w \in WatchSlots :
        notifier[w].err # NoErr =>
            /\ notifier'[w].status = notifier[w].status
            /\ notifier'[w].err = notifier[w].err

\* C4: per subscription the callback gets at most one error delivery, which
\* is its last delivery, and a recorded error is never overwritten.
C4_ErrorDeliveryIsTerminal == []ErrorIsLast /\ [][ErrorIsFinal]_vars

\* C4 witness: the context's error was recorded, a later SetStatus and a stop
\* raced with it, and the error was the last of several deliveries.
C4_Witness ==
    \E w \in WatchSlots :
        /\ Len(delivered[w]) >= 2
        /\ Last(delivered[w]) = ErrUpdate(ctxErr[w])
        /\ notifier[w].err = ctxErr[w] /\ notifier[w].status = StatusUnknown
        /\ Last(trueSeq[w]) = StatusNotServing
        /\ stopCalls[w] = 1
        /\ \A k \in LoopSlots : loops[w][k].pc = "none"

\* the error deliveries a watch received
ErrorCount(w) == Len(SelectSeq(delivered[w], LAMBDA u : u.err # NoErr))

\* the stop function of the watch has been invoked
StopInvoked(w) == stopCalls[w] > 0 \/ spc[w] # "idle"

\* a registered watch whose context is done
Cancelled(w) == HasNotifier(w) /\ wpc[w] = "done" /\ ctxErr[w] # NoErr

\* nothing of the watch is running: the AfterFunc goroutine has finished, no
\* delivery loop is left and no stop call is under way
AtRest(w) ==
    /\ afpc[w] = "done"
    /\ spc[w] = "idle"
    /\ \A k \in LoopSlots : loops[w][k].pc = "none"

\* C5 as claimed: a context that ended before stop was invoked yields exactly
\* one terminal error delivery and one removal, whatever stop call follows.
\* Stated for the state in which nothing of the watch is left to run.
C5_Original ==
    \A w \in WatchSlots :
        (ctxFirst[w] /\ Cancelled(w) /\ AtRest(w)) =>
            /\ ErrorCount(w) = 1
            /\ removals[w] = 1

\* the watch ended as the amended C5 says
Terminated(w) ==
    /\ w \notin NotifiersOf(wsvc[w])
    /\ removals[w] = 1
    /\ \/ StopInvoked(w)
       \/ /\ ErrorCount(w) = 1
          /\ Last(delivered[w]) = ErrUpdate(ctxErr[w])

\* C5 amended: when the context of a registered watch is done, the
\* subscription is eventually removed from the subscriber set, exactly once,
\* and, unless the stop function is invoked, exactly one terminal error
\* carrying the context's error is delivered; with a stop call the error
\* delivery may be suppressed. Never is there more than one error delivery or
\* more than one removal.
C5_CancelTerminates ==
    /\ \A w \in WatchSlots : Cancelled(w) ~> Terminated(w)
    /\ [](\A w \in WatchSlots : ErrorCount(w) <= 1 /\ removals[w] <= 1)

\* C5 witness: the context ended while deliveries and SetStatus calls were in
\* flight, stop was never invoked, and the error came last, after which the
\* subscription was removed.
C5_Witness ==
    \E w \in WatchSlots :
        /\ ctxFirst[w] /\ Cancelled(w) /\ AtRest(w)
        /\ ~StopInvoked(w)
        /\ Terminated(w)
        /\ Len(delivered[w]) >= 3
        /\ Len(trueSeq[w]) >= 3

\* C6 as claimed: once a stop call has returned, no invocation of the
\* callback begins.
NoCallAfterStop ==
    \A w \in WatchSlots : stopCalls[w] > 0 => delivered'[w] = delivered[w]

C6_Original == [][NoCallAfterStop]_vars

\* C7 (states): a stop that was invoked before the context ended forces no
\* error delivery, then or later; and once stop has returned the subscription
\* is absent from the subscriber set of its name, taken out exactly once.
StopIsSilent ==
    \A w \in WatchSlots :
        HasNotifier(w) =>
            /\ (StopInvoked(w) /\ ~ctxFirst[w]) => ErrorCount(w) = 0
            /\ stopCalls[w] > 0 =>
                   /\ w \notin NotifiersOf(wsvc[w])
                   /\ removals[w] = 1

\* C7 (steps): once stop has returned, no notify (of a later SetStatus or of
\* the AfterFunc) changes the recorded status or error, no delivery loop is
\* started and no loop passes the stopped test, so that nothing set after the
\* stop is delivered; and the first stop of a watch whose context is live
\* takes exactly its own entry out of the subscriber set of its name.
StopIsFinal ==
    \A w \in WatchSlots :
        /\ (HasNotifier(w) /\ stopCalls[w] > 0) =>
               /\ notifier'[w].status = notifier[w].status
               /\ notifier'[w].err = notifier[w].err
               /\ \A k \in LoopSlots :
                      /\ loops[w][k].pc = "none" => loops'[w][k].pc = "none"
                      /\ loops'[w][k].pc = "call" => loops[w][k].pc = "call"
        /\ (spc[w] = "delete" /\ spc'[w] = "idle"
                /\ stopCalls[w] = 0 /\ ctxErr[w] = NoErr) =>
               /\ <<wid[w], w>> \in watchers[wsvc[w]]
               /\ watchers'[wsvc[w]] = watchers[wsvc[w]] \ {<<wid[w], w>>}
               /\ Cardinality(watchers'[wsvc[w]]) =
                      Cardinality(watchers[wsvc[w]]) - 1

\* C7: stopping a healthy watch forces no terminal delivery, a SetStatus or a
\* cancellation after the stop delivers nothing, and the stop leaves the
\* subscriber set of the name without the subscription, one entry smaller.
C7_StopSuppressesDeliveries == []StopIsSilent /\ [][StopIsFinal]_vars

\* C7 witness: stop returned on a healthy watch; afterwards the context ended
\* and a status was set that the watcher never got; no error was delivered.
C7_Witness ==
    \E w \in WatchSlots :
        /\ stopCalls[w] = 1
        /\ ctxErr[w] # NoErr /\ ~ctxFirst[w]
        /\ AtRest(w)
        /\ ErrorCount(w) = 0
        /\ Len(trueSeq[w]) >= 2
        /\ Last(trueSeq[w]) # Last(DeliveredStatuses(w))
        /\ notifier[w].status = Last(DeliveredStatuses(w))

\* C8 as claimed: no two consecutive status deliveries of a watch carry the
\* same status.
C8_Original ==
    \A w \in WatchSlots :
        \A i \in 1..(Len(DeliveredStatuses(w)) - 1) :
            DeliveredStatuses(w)[i] # DeliveredStatuses(w)[i + 1]

\* the executions of deliverNotices and of the NotFound goroutine that are
\* under way for a watch
ActiveLoops(w) ==
    Cardinality({k \in LoopSlots : loops[w][k].pc # "none"})
        + (IF nfpc[w] \in {"spawned", "callback"} THEN 1 ELSE 0)

\* C9: the calls of a subscription's callback are serialized: at most one
\* delivery loop is active per notifier and at most one invocation of the
\* callback is in progress.
C9_CallbackSerialized ==
    \A w \in WatchSlots : ActiveLoops(w) <= 1 /\ InCallback(w) <= 1

\* C9 witness: a status delivery is in progress while the context's error is
\* already recorded and a stop call is under way; no second loop was started.
C9_Witness ==
    \E w \in WatchSlots, k \in LoopSlots :
        /\ loops[w][k].pc = "callback" /\ loops[w][k].err = NoErr
        /\ ~loops[w][k].first
        /\ notifier[w].err # NoErr
        /\ spc[w] = "delete"
        /\ ActiveLoops(w) = 1

CheckOwed ==
    IF centry # NoEntry THEN Update(centry[1], NoErr)
    ELSE IF csvc = "" THEN Update(StatusServing, NoErr)
    ELSE ErrUpdate(CodeNotFound)

\* C11 (result): a Check that returned gave the status of the entry it found,
\* Serving for the unset empty name and NotFound for any other unknown name;
\* a name passed to NewStaticChecker and never set is Serving.
CheckAnswers ==
    cpc = "done" =>
        /\ cres = CheckOwed
        /\ (setCount = 0 /\ centry # NoEntry) => cres = Update(StatusServing, NoErr)

\* C11 (frame): the steps of Check change neither the status map nor the
\* subscriber sets.
CheckReadsOnly ==
    cpc' # cpc =>
        /\ statuses' = statuses
        /\ watchers' = watchers
        /\ watchCount' = watchCount

SetStatusStores ==
    \A service \in Names, status \in Statuses :
        SetStatusLock(service, status) =>
            /\ CheckResult(service)' = Update(status, NoErr)
            /\ \A n \in Names \ {service} : CheckResult(n)' = CheckResult(n)

\* C12 (until the next SetStatus): no other step changes what Check yields
\* for a name.
OnlySetStatusChanges ==
    \A n \in Names :
        CheckResult(n)' # CheckResult(n) =>
            \E status \in Statuses : SetStatusLock(n, status)

\* C12 (Check): a Check returns what the registry held for the name when the
\* Check was called or the status of a SetStatus that ran during the call.
CheckLinearized == cpc = "done" => cres \in callowed

C15_Original ==
    \A w \in WatchSlots : InCallback(w) > 0 => mu # w

\* C16 as claimed: a callback that is slow or never returns does not stall
\* the registry: a Check that was called completes and a SetStatus that
\* took c.mu returns.
C16_Original ==
    /\ (cpc = "called") ~> (cpc = "done")
    /\ (tpc = "notify") ~> (tpc = "idle")

\* C13 (states): once a stop call has returned or the AfterFunc has finished,
\* the subscription is absent from the subscriber set; it was taken out at
\* most once and got at most one terminal delivery.
RemovalHolds ==
    \A w \in WatchSlots :
        /\ (HasNotifier(w) /\ (stopCalls[w] > 0 \/ afpc[w] = "done")) =>
               w \notin NotifiersOf(wsvc[w])
        /\ removals[w] <= 1
        /\ ErrorCount(w) <= 1

\* C13 (steps): a deleteWatcher step of a watch, made by its stop or by its
\* AfterFunc, takes nothing but the entry of that watch out of any subscriber
\* set, and a stop call after the first changes neither the subscriber sets
\* nor the notifier.
RemovalIsIdempotent ==
    \A w \in WatchSlots :
        /\ ((spc[w] = "delete" /\ spc'[w] = "idle")
               \/ (afpc[w] = "delete" /\ afpc'[w] = "done")) =>
               \A s \in Names : watchers[s] \ watchers'[s] \subseteq {<<wid[w], w>>}
        /\ (stopCalls[w] > 0 /\ spc'[w] # spc[w]) =>
               /\ watchers' = watchers
               /\ notifier' = notifier

\* C13: removal is idempotent. Whether stop, the cancellation or both end a
\* watch, in either order and with stop called again, the subscription ends
\* absent from the subscriber set, no other subscription is removed and no
\* second terminal delivery is made.
C13_RemovalIdempotent == []RemovalHolds /\ [][RemovalIsIdempotent]_vars

\* C13 witness: the context ended first, stop was called twice, the
\* subscription was taken out once and its sibling on the same name is still
\* registered.
C13_Witness ==
    /\ ctxFirst["w2"] /\ afpc["w2"] = "done"
    /\ stopCalls["w2"] = 2
    /\ removals["w2"] = 1
    /\ wsvc["w1"] = wsvc["w2"]
    /\ NotifiersOf(wsvc["w2"]) = {"w1"}

\* the watches subscribed to a name: registered by Watch and not yet removed
SubscribedTo(service) ==
    {w \in WatchSlots : wsvc[w] = service /\ afpc[w] # "none" /\ removals[w] = 0}

\* the statuses that occur in a sequence
Elements(seq) == {seq[i] : i \in 1..Len(seq)}

\* C14 (steps): SetStatus on a name ranges over exactly the notifiers
\* subscribed to that name, and each notify it makes touches that one
\* notifier only.
FanOutPerName ==
    /\ \A service \in Names, status \in Statuses :
           SetStatusLock(service, status) =>
               /\ pending' = SubscribedTo(service)
               /\ notifier' = notifier /\ loops' = loops
    /\ \A w \in WatchSlots :
           SetStatusNotify(w) =>
               /\ statuses[wsvc[w]] = <<tstatus>>
               /\ \A v \in WatchSlots \ {w} :
                      notifier'[v] = notifier[v] /\ loops'[v] = loops[v]

\* C14 (states): a notifier records, and its watcher receives, only statuses
\* that were set on its own name; a SetStatus that returned has notified
\* every notifier it ranged over.
NotifiedOwnName ==
    /\ \A w \in WatchSlots :
           HasNotifier(w) =>
               /\ notifier[w].err = NoErr => notifier[w].status \in Elements(trueSeq[w])
               /\ Elements(DeliveredStatuses(w)) \subseteq Elements(trueSeq[w])
    /\ tpc = "idle" => pending = {}

\* C14: fan-out is per name. SetStatus on a name calls notify on every
\* notifier registered for it and on none registered for another name, whose
\* watcher receives nothing from it.
C14_FanOutPerName == []NotifiedOwnName /\ [][FanOutPerName]_vars

\* C14 witness: one watch on "" and one on "A"; "A" was set to NotServing,
\* which the watcher of "A" received and the watcher of "" did not.
C14_Witness ==
    /\ wsvc["w1"] = "" /\ wsvc["w2"] = "A"
    /\ SubscribedTo("") = {"w1"} /\ SubscribedTo("A") = {"w2"}
    /\ statuses["A"] = <<StatusNotServing>>
    /\ DeliveredStatuses("w2") = <<StatusServing, StatusNotServing>>
    /\ delivered["w1"] = <<Update(StatusServing, NoErr)>>
    /\ notifier["w1"].status = StatusServing
    /\ tpc = "idle"

\* a step of the cancellation, stop or NotFound termination of a watch
TerminationStep(w) ==
    \/ ctxErr'[w] # ctxErr[w]
    \/ (afpc[w] # "none" /\ afpc'[w] # afpc[w])
    \/ spc'[w] # spc[w]
    \/ stopCalls'[w] # stopCalls[w]
    \/ nfpc'[w] # nfpc[w]

\* C17 (steps): a step of the termination of a watch leaves the status map
\* and, of every other watch, the registration, the notifier, the delivery
\* loops and the deliveries.
FailuresAreLocal ==
    \A w \in WatchSlots :
        TerminationStep(w) =>
            /\ statuses' = statuses
            /\ \A v \in WatchSlots \ {w} :
                   /\ delivered'[v] = delivered[v]
                   /\ notifier'[v] = notifier[v]
                   /\ loops'[v] = loops[v]
                   /\ \A s \in Names :
                          (v \in NotifiersOf(s)) <=> (v \in NotifiersOf(s)')

\* C17 (states): a watch that was registered and has not ended itself is in
\* the subscriber set of its name, whatever became of the other watches.
SiblingStaysRegistered ==
    \A v \in WatchSlots :
        (afpc[v] = "armed" /\ spc[v] = "idle" /\ stopCalls[v] = 0) =>
            v \in NotifiersOf(wsvc[v])

\* C17: failures are local to one subscription. A cancellation, a stop or a
\* NotFound termination of a watch changes neither the status map nor the
\* registration or the delivered sequence of any other watch.
C17_FailuresAreLocal == []SiblingStaysRegistered /\ [][FailuresAreLocal]_vars

\* C17 witness: the second watch on the name ended with its context's error
\* and was removed; the first is registered and has received the status set
\* on the name.
C17_Witness ==
    /\ wsvc["w1"] = wsvc["w2"]
    /\ afpc["w2"] = "done" /\ ErrorCount("w2") = 1
    /\ NotifiersOf(wsvc["w1"]) = {"w1"}
    /\ Len(delivered["w1"]) = 2
    /\ Last(DeliveredStatuses("w1")) = EffectiveStatus(wsvc["w1"])

\* C18 as stated: a Watch RPC at the handler NewHandler builds from a
\* StaticChecker puts no status message on the stream and, once it has
\* returned, has returned CodeUnimplemented.
C18_Original ==
    hkind = "static" =>
        /\ sent = <<>>
        /\ hpc = "returned" => hres = CodeUnimplemented

\* C19 (states): with a Checker that is no Watcher the RPC has returned
\* Unimplemented, nothing was sent and Watch was not called on the checker;
\* with a Watcher the RPC returns only after Watch was called and returned,
\* and it returns an error its callback has seen, never Unimplemented.
WatchServedByKind ==
    /\ hkind = "plain" =>
           /\ hpc = "returned" /\ hres = CodeUnimplemented
           /\ sent = <<>>
           /\ wpc[HandlerSlot] = "idle" /\ delivered[HandlerSlot] = <<>>
    /\ (hkind = "static" /\ hpc = "returned") =>
           /\ wpc[HandlerSlot] = "done"
           /\ hres # CodeUnimplemented
           /\ hres \in {CodeNotFound, SendFailed} \cup CtxErrs
    /\ sent # <<>> => hkind = "static"

\* C19 (steps): the step that answers Unimplemented leaves the checker, its
\* watches and the stream as they are.
UnimplementedTouchesNothing ==
    (hres' = CodeUnimplemented /\ hres # CodeUnimplemented) =>
        /\ hkind' = "plain"
        /\ UNCHANGED <<registryVars, checkVars, sent>>

C19_WitnessPlain ==
    /\ hkind = "plain" /\ hpc = "returned" /\ hres = CodeUnimplemented
    /\ setCount > 0

\* C20 (states): once a stop call has returned, the receive loop is over (or
\* was never started, the stream having failed to open) and the results
\* channel is closed.
StopReturnedAfterLoop ==
    kstops > 0 =>
        /\ lpc \in {"none", "exited"}
        /\ kpc = "open" => (lpc = "exited" /\ workerDone)
        /\ resultsClosed
        /\ msg = <<>>

\* C20 (steps): after a stop call has returned nothing is sent on the
\* results channel; its buffer can only be read.
NoSendAfterStop ==
    (kstops > 0 /\ results' # results) => results' = Tail(results)

\* C20: the client's stop does not return until the receive loop has fully
\* exited. In every state after a stop call returned the loop has ended, the
\* feed is closed and no further send on it occurs.
C20_StopWaitsForLoop == []StopReturnedAfterLoop /\ [][NoSendAfterStop]_vars

\* C20 witness: stop was called while the loop held a status it could not
\* put into the full buffer; the call returned after the loop had gone
\* through its deferred calls.
C20_Witness ==
    /\ kpc = "open" /\ kstops > 0
    /\ stopped /\ kctx = CtxCanceled
    /\ Len(received) = MaxMsgs /\ Len(results) = ResultsCap
    /\ lpc = "exited" /\ workerDone /\ resultsClosed
    /\ kres = NoErr

\* a stop call of the client returns in this step
StopReturns == \E c \in StopCallers : kspc[c] = "wait" /\ kspc'[c] = "idle"

\* C21 as stated: a stop call on a watch whose caller's context is live and
\* whose stream got no error from the server (the watch ended by stop, or the
\* server ended the stream without an error code) returns nil.
C21_Original ==
    [][(StopReturns /\ pctx = NoErr /\ rerr \notin ServerErrs) => kres' = NoErr]_vars

\* the receive loop ended on the end of the caller's context: Receive failed
\* with the context's error, or the select took the ctx.Done() case
EndedByContext == IF streamClosed THEN rerr = pctx ELSE lpc # "none"

\* C22 as stated: when the caller's context ended before stop was called and
\* the watch ended on it, the stop call returns the context's error,
\* context.Canceled or context.DeadlineExceeded.
C22_Original ==
    [][(StopReturns /\ pctx # NoErr /\ pctxFirst /\ EndedByContext) =>
           kres' = pctx]_vars

\* C23 (states): all the stop calls that returned have returned one value.
StopsReturnSame == Cardinality(kreturned) <= 1

\* C23 (steps): once a stop call has returned, recvError is not stored again.
StoredErrorIsFinal == kstops > 0 => recvError' = recvError

\* C23 (progress): every stop call that began returns.
StopsReturn == \A c \in StopCallers : (kspc[c] # "idle") ~> (kspc[c] = "idle")

\* C23: the client's stop may be called several times, one call after the
\* other or two at once: every call returns and all calls return the same
\* stored error.
C23_StopIdempotent ==
    []StopsReturnSame /\ [][StoredErrorIsFinal]_vars /\ StopsReturn

\* C23 witness: two stop calls have returned, both the error of the deadline
\* that ended the watch, which the loop stored once.
C23_Witness ==
    /\ kpc = "open" /\ kstops = 2
    /\ pctx = "DeadlineExceeded"
    /\ kreturned = {"DeadlineExceeded"}
    /\ kres = recvError

\* the watch is over: the stream did not open, or the receive loop exited
WatchOver == kpc = "failed" \/ lpc = "exited"

\* nothing is sent on the results channel once it is closed
NoSendOnClosed == (resultsClosed /\ results' # results) => results' = Tail(results)

ClosedOnceAndCancelled ==
    /\ closes <= 1
    /\ resultsClosed <=> closes = 1
    /\ WatchOver => (closes = 1 /\ resultsClosed /\ kctx # NoErr)
    /\ streamClosed => lpc \in {"cancel", "closeResults", "closeDone", "exited"}

C25_ShutdownNotBlockedByConsumer ==
    /\ (kpc = "open" /\ kctx # NoErr) ~> (lpc = "exited")
    /\ \A c \in StopCallers : (kspc[c] = "cancel") ~> (kstops > 0 /\ lpc = "exited")

\* C25 witness: the buffer of the feed is full, a further status was pending
\* in the select, the caller's context was cancelled, and the loop has exited
\* with that error stored and the buffer still full.
C25_Witness ==
    /\ Len(received) = MaxMsgs /\ Len(results) = ResultsCap
    /\ pctx = CtxCanceled /\ ~stopped
    /\ lpc = "exited" /\ ~streamClosed
    /\ recvError = CtxCanceled

\* strings.HasPrefix
HasPrefix(str, prefix) ==
    /\ Len(str) >= Len(prefix)
    /\ SubSeq(str, 1, Len(prefix)) = prefix

\* the number a sequence of decimal digit characters denotes
RECURSIVE DecimalValue(_)
DecimalValue(digits) ==
    IF digits = <<>> THEN 0
    ELSE 10 * DecimalValue(SubSeq(digits, 1, Len(digits) - 1))
         + (CHOOSE d \in 0..9 : DigitChars[d + 1] = digits[Len(digits)])

\* what follows the prefix in a string
AfterPrefix(str) == SubSeq(str, Len(StatusPrefix) + 1, Len(str))

\* C26: String returns a name that does not start with "status_" exactly
\* for the three known statuses, and for every other value n of the 8-bit
\* type "status_" followed by the decimal digits of n.
C26_StringCustomizedForKnown ==
    sout # <<>> =>
        /\ (sarg \in Statuses) <=> ~HasPrefix(sout, StatusPrefix)
        /\ sarg \notin Statuses =>
               /\ HasPrefix(sout, StatusPrefix)
               /\ \A i \in 1..Len(AfterPrefix(sout)) :
                      \E d \in 0..9 : AfterPrefix(sout)[i] = DigitChars[d + 1]
               /\ AfterPrefix(sout)[1] # "0"
               /\ DecimalValue(AfterPrefix(sout)) = sarg

\* C26 witness: String was called on the largest value of the type.
C26_Witness == sarg = MaxStatus /\ sout = StatusPrefix \o <<"2", "5", "5">>

ProcessCheck ==
    (cpc = "done" /\ csvc = "") =>
        /\ cres.err = NoErr
        /\ cres \in callowed
        /\ centry = NoEntry => cres = Update(StatusServing, NoErr)

\* C27 (steps), amended: SetStatus on the empty name sets what a Check of the
\* empty name returns from then on.
ProcessStatusIsSet ==
    \A status \in Statuses :
        SetStatusLock("", status) => CheckResult("")' = Update(status, NoErr)

C28_Original == done <= 1

\* a notifier that is not stopped and has no recorded error
Live(w) == HasNotifier(w) /\ ~notifier[w].stopped /\ notifier[w].err = NoErr

\* C29: whenever a notifier has no delivery loop running (delivering is
\* false), is not stopped and has no recorded error, the status last passed
\* to its callback is its recorded status; a live notifier whose delivering
\* flag is set has a loop running or about to run.
C29_QuiescentIsCurrent ==
    \A w \in WatchSlots :
        /\ (Live(w) /\ ~notifier[w].delivering) =>
               /\ \A k \in LoopSlots : loops[w][k].pc = "none"
               /\ DeliveredStatuses(w) # <<>>
               /\ Last(DeliveredStatuses(w)) = notifier[w].status
        /\ (Live(w) /\ notifier[w].delivering) =>
               \E k \in LoopSlots : loops[w][k].pc # "none"

\* C29 witness: after two changes of the status the loop has delivered the
\* last one and cleared delivering.
C29_Witness ==
    /\ Live("w1") /\ ~notifier["w1"].delivering
    /\ Len(trueSeq["w1"]) = 3
    /\ notifier["w1"].status = StatusNotServing
    /\ Last(DeliveredStatuses("w1")) = StatusNotServing
    /\ Len(DeliveredStatuses("w1")) >= 2

\* C30: in every state where the registry lock is free, each notifier
\* subscribed to a name that is neither stopped nor has a recorded error
\* holds the effective status of the name, the map entry or Serving for the
\* unset empty name.
C30_SubscribersHoldCurrentStatus ==
    mu = "free" =>
        \A service \in Names : \A w \in SubscribedTo(service) :
            Live(w) => notifier[w].status = EffectiveStatus(service)

\* C30 witness: a watch was seeded with Serving, the name was set to
\* NotServing afterwards, and with the lock free again the subscribed
\* notifier holds NotServing.
C30_Witness ==
    /\ mu = "free" /\ tpc = "idle"
    /\ "w1" \in SubscribedTo(wsvc["w1"]) /\ Live("w1")
    /\ trueSeq["w1"] = <<StatusServing, StatusNotServing>>
    /\ notifier["w1"].status = StatusNotServing

\* the Watch RPC of a handler built for a Watcher has returned
WatchRPCReturned == hkind = "static" /\ hpc = "returned"

\* the handler's subscription is in no subscriber set of the registry
Unsubscribed == \A s \in Names : HandlerSlot \notin NotifiersOf(s)

\* C31 (part): the Watch RPC returned only after its callback saw an error
\* and closed done, and by then the watch's stop function has run and the
\* subscription is in no subscriber set.
C31_ReturnsAfterErrorAndStop ==
    WatchRPCReturned =>
        /\ hfirst # NoErr /\ done >= 1
        /\ stopCalls[HandlerSlot] >= 1
        /\ Unsubscribed

\* C31 as stated: the Watch RPC of a handler built for a Watcher returns
\* only after its callback saw an error (a terminal watch error or a failed
\* stream send), it returns the first such error, and by the time it returns
\* the watch's stop function has run and the subscription is no longer in
\* the registry's subscriber set.
C31_Original ==
    WatchRPCReturned =>
        /\ hfirst # NoErr /\ done >= 1
        /\ hres = hfirst
        /\ stopCalls[HandlerSlot] >= 1
        /\ Unsubscribed

\* the last Len(results) statuses of what was sent on the feed
FedTail == SubSeq(fed, Len(fed) - Len(results) + 1, Len(fed))

\* C32 (states): what the loop has sent on the feed is what it received, in
\* receive order, but for the last status, which it may still hold for its
\* send or have dropped; the feed buffers at most one status, the last sent.
FeedInReceiveOrder ==
    /\ Len(fed) <= Len(received)
    /\ fed = SubSeq(received, 1, Len(fed))
    /\ Len(received) - Len(fed) <= 1
    /\ msg # <<>> => (lpc = "select" /\ received = Append(fed, msg[1]))
    /\ Len(results) <= ResultsCap /\ Len(results) <= Len(fed)
    /\ results = FedTail

\* C32 (steps): a send on the feed sends the status the loop holds, once,
\* and the loop lets go of a status without sending it only in a select
\* that finds the call's context done, after which it receives no more.
FedOnceOrDroppedOnDone ==
    /\ fed' # fed =>
           (msg # <<>> /\ fed' = Append(fed, msg[1]) /\ msg' = <<>>
            /\ results' = Append(results, msg[1]))
    /\ (msg # <<>> /\ msg' = <<>> /\ fed' = fed) =>
           (lpc = "select" /\ kctx # NoErr /\ lpc' \notin {"receive", "select"})
    /\ (Len(received) > Len(fed) /\ msg = <<>>) => received' = received

\* C32: while a client watch is open, the receive loop puts each status
\* received from the server on the feed exactly once and in receive order,
\* with at most one status buffered; a received status is dropped only when
\* the call's context is cancelled (by the caller or by stop) while its send
\* is pending.
C32_FeedInOrderDropOnCancel == []FeedInReceiveOrder /\ [][FedOnceOrDroppedOnDone]_vars

\* C32 witness: two different statuses went to the feed in receive order,
\* the second of them is buffered, and the watch is still open.
C32_Witness ==
    /\ kpc = "open" /\ lpc = "receive" /\ kctx = NoErr
    /\ Len(fed) = 2 /\ fed[1] # fed[2] /\ fed = received
    /\ results = <<fed[2]>>

\* C32 witness of the drop: the second status received was dropped in a
\* select that found the context cancelled by stop, with the first sent.
C32_WitnessDrop ==
    /\ Len(received) = 2 /\ Len(fed) = 1 /\ msg = <<>>
    /\ stopped /\ pctx = NoErr /\ kctx = CtxCanceled

====
